---- MODULE Spec2Model ----
(***************************************************************************)
(* The local context-capture pipeline of Integrity Assistant:              *)
(*   - KeystrokeLogger (src/modules/keystroke_logger.py): the key-event    *)
(*     handlers, the sensitive-mode classifier and the flush;              *)
(*   - IntegrityAssistant (src/main.py): the two rolling lists, the        *)
(*     screen-capture loop, submit_query and start/stop as main() calls    *)
(*     them.                                                               *)
(* Three threads run: the main (GUI) thread, pynput's listener thread and  *)
(* the screen-capture thread (two of them when start() is called again     *)
(* after stop()).  Each step of a thread holds at most one access to a     *)
(* variable another thread writes.                                         *)
(*                                                                         *)
(* Strings are sequences of one-character strings.  The clock is read in   *)
(* whole seconds (time.time() truncated), which is also the precision of   *)
(* the entries' timestamps.                                                *)
(***************************************************************************)
EXTENDS Integers, Sequences, FiniteSets, TLC

\* ------------------------------------------------------------- bounds
MaxNow == 2        \* clock readings are 0..MaxNow
MaxSpecial == 2    \* presses of special keys in one run of Spec
MaxSpecialSeq == 2 \* presses of special keys in one run of SpecSeq
MaxQueries == 1    \* queries submitted in one run
MaxReel == 3       \* frames of a short reel
MaxLatency == 2    \* the longest capture with OCR, in units of 100 ms
MaxFaults == 1     \* calls of on_keystroke that raise in one run
MaxOcr == 4        \* characters image_to_string returns for one screenshot

\* ------------------------------------------------- program constants
MaxScreenTexts == 30   \* main.py:98
MaxKeystrokes == 100   \* main.py:116
MaxBufferLen == 20     \* keystroke_logger.py:68
FlushAfter == 1        \* keystroke_logger.py:66 (seconds)
Period == 5            \* main.py:102 (units of 100 ms)
Backoff == 10          \* main.py:105 (units of 100 ms)

\* ---------------------------------------------------------------- keys
\* pynput special keys (keyboard.Key.*): str(key) is "Key.<name>".
SpecialKeys == {"enter", "tab", "shift"}

SpecialName ==
  [k \in SpecialKeys |->
     CASE k = "enter" -> <<"e", "n", "t", "e", "r">>
       [] k = "tab"   -> <<"t", "a", "b">>
       [] k = "shift" -> <<"s", "h", "i", "f", "t">>]

\* What the typist types: the keys of a run, in order.
Password == <<"p", "a", "s", "s", "w", "o", "r", "d">>
Password1 == Password \o <<"1">>
Password123 == Password \o <<"1", "2", "3">>
UpperPin == <<"P", "i", "N", "4">>
Texts == {UpperPin}
\* Plain characters, more of them than pendingText may hold; the second line
\* begins with the marker "pin".
Line == <<"a", "b", "c", "d", "e", "f", "g", "h", "i", "j", "k", "l",
          "m", "n", "o", "p", "q", "r", "s", "t", "u", "v", "w">>
PinLine == <<"p", "i", "n">> \o SubSeq(Line, 1, Len(Line) - 3)
Lines == {Line, PinLine}
\* A word and Enter.
OkLine == <<"o", "k", "enter">>
\* A word, Enter and another word.
OkHi == OkLine \o <<"h", "i">>
\* Printable keys, the left bracket among them, and Enter.
Bracketed == <<"a", "[", "b", "enter", "c">>
\* Enter and Tab in turn, often enough to overflow keystrokes.
Hammer == [n \in 1..(MaxKeystrokes + 2) |-> IF n % 2 = 1 THEN "enter" ELSE "tab"]

\* What happens at each capture, in order: whether ImageGrab.grab() returns a
\* screenshot, whether pytesseract.image_to_string raises on it, and the string
\* it returns otherwise.
\* took is the time capture() and extract_text() take together, in units of
\* 100 ms; push tells whether the append to screen_texts succeeds (it raises
\* when memory is exhausted).
Shows(out) == [grab |-> TRUE, raises |-> FALSE, out |-> out, took |-> 0, push |-> TRUE]
NoImage == [grab |-> FALSE, raises |-> FALSE, out |-> <<>>, took |-> 0, push |-> TRUE]
OcrFails == [grab |-> TRUE, raises |-> TRUE, out |-> <<>>, took |-> 0, push |-> TRUE]
PushFails == [grab |-> TRUE, raises |-> FALSE, out |-> <<"A">>, took |-> 0, push |-> FALSE]

\* EmptyText is what extract_text returns for a blank screen, an absent image
\* or an OCR error.
EmptyText == <<>>
ScreenTexts == {EmptyText, <<"A">>, <<"B">>}
ShortReels == UNION {[1..n -> {Shows(t) : t \in ScreenTexts}] : n \in 0..MaxReel}
\* Every kind of capture: text, nothing, white space only, no screenshot, an
\* OCR error, a failing append.
Scenes == {Shows(<<"A">>), Shows(<<"B">>), Shows(EmptyText), Shows(<<" ", "\n">>),
           NoImage, OcrFails, PushFails}
SceneReels == UNION {[1..n -> Scenes] : n \in 0..MaxReel}
\* Two captures with text.
TwoTexts == <<Shows(<<"A">>), Shows(<<"B">>)>>
\* Captures that succeed and take some time, shorter than the period.
Timed(d) == [grab |-> TRUE, raises |-> FALSE, out |-> <<"A">>, took |-> d, push |-> TRUE]
TimedReels == UNION {[1..n -> {Timed(d) : d \in 0..MaxLatency}] : n \in 0..MaxReel}
\* A screen whose text is different in every frame, every third frame blank,
\* long enough to overflow screen_texts.
Glyphs == <<"A", "B", "C", "D", "E", "F", "G", "H">>
LongReel ==
  [n \in 1..(MaxScreenTexts + MaxScreenTexts \div 2 + 3) |->
     IF n % 3 = 0 THEN Shows(EmptyText)
     ELSE Shows(<<Glyphs[(n \div Len(Glyphs)) + 1], Glyphs[(n % Len(Glyphs)) + 1]>>)]
Reels == ShortReels \cup {LongReel}
\* What image_to_string may return: words of A and B between spaces, tabs and
\* newlines.
OcrChars == {"A", "B", " ", "\t", "\n"}
OcrTexts == UNION {[1..n -> OcrChars] : n \in 0..MaxOcr}
\* One capture: no screenshot, an OCR error, or any of these texts.
OneScene == {<<NoImage>>, <<OcrFails>>} \cup {<<Shows(t)>> : t \in OcrTexts}

\* str.lower() on one character.
LowerChar(c) ==
  CASE c = "P" -> "p"
    [] c = "N" -> "n"
    [] OTHER -> c

Lower(s) == [i \in 1..Len(s) |-> LowerChar(s[i])]

\* Python's `p in s` on strings.
Contains(s, p) ==
  \E i \in 0..(Len(s) - Len(p)) : SubSeq(s, i + 1, i + Len(p)) = p

sensitive_prefixes ==
  << <<"p", "a", "s", "s", "w", "o", "r", "d">>,
     <<"p", "a", "s", "s", "w", "d">>,
     <<"p", "w", "d">>,
     <<"p", "i", "n">>,
     <<"c", "r", "e", "d", "i", "t">>,
     <<"c", "a", "r", "d">>,
     <<"c", "v", "v">>,
     <<"s", "s", "n">>,
     <<"s", "o", "c", "i", "a", "l">>,
     <<"s", "e", "c", "r", "e", "t">> >>

\* A classifier whose marker list lacks its first entry, "password".
MutCheckWithoutPassword(buf, mode) ==
  IF \E n \in 2..Len(sensitive_prefixes) : Contains(Lower(buf), sensitive_prefixes[n])
  THEN TRUE
  ELSE mode

\* _check_sensitive_context: the value of sensitive_mode after the call.
CheckSensitiveContext(buf, mode) ==
  IF \E n \in 1..Len(sensitive_prefixes) : Contains(Lower(buf), sensitive_prefixes[n])
  THEN TRUE
  ELSE mode

\* The token of a key before masking: key.char, or "[<name>]".
KeyToken(k) ==
  IF k \in SpecialKeys
  THEN <<"[">> \o SpecialName[k] \o <<"]">>
  ELSE <<k>>

\* A mask applied to printable keys only.
MutKeyStrMaskChars(k, mode) ==
  IF mode /\ k \notin SpecialKeys THEN <<"*">> ELSE KeyToken(k)

\* key_str as appended to the buffer.
KeyStr(k, mode) == IF mode THEN <<"*">> ELSE KeyToken(k)

\* A flush condition without the special-key test.
MutShouldFlushNoSpecial(current_time, last, ks, buf) ==
  \/ current_time - last > FlushAfter
  \/ Len(buf) > MaxBufferLen

\* A flush condition without the length test.
MutShouldFlushNoLength(current_time, last, ks, buf) ==
  \/ current_time - last > FlushAfter
  \/ ks[1] = "["

\* The flush condition of _on_key_press.
ShouldFlush(current_time, last, ks, buf) ==
  \/ current_time - last > FlushAfter
  \/ ks[1] = "["
  \/ Len(buf) > MaxBufferLen

\* _active_keys(): the placeholder returns an empty list.
ActiveKeys == {}

\* A release handler that leaves sensitive mode on every release of Tab.
MutExitsOnAnyTab(k) == k = "tab"

\* The release handler's test for leaving sensitive mode.
ExitsSensitive(k) == k = "tab" /\ "shift" \in ActiveKeys

Last(q) == q[Len(q)]

\* The n most recent elements of q, oldest first.
LastN(q, n) == IF Len(q) > n THEN SubSeq(q, Len(q) - n + 1, Len(q)) ELSE q

\* on_keystroke: the entry appended to self.keystrokes.
KeystrokeEntry(t, content) == [timestamp |-> t, content |-> content]

\* An eviction that drops the newest entry, pop() for pop(0).
MutEvictNewestKeystroke(ks) ==
  IF Len(ks) > MaxKeystrokes THEN SubSeq(ks, 1, Len(ks) - 1) ELSE ks

\* on_keystroke: keep only the last MaxKeystrokes entries.
EvictKeystrokes(ks) == IF Len(ks) > MaxKeystrokes THEN Tail(ks) ELSE ks

\* ScreenCapture.capture: the screenshot, or None when grabbing it raised.
Capture(scene) == IF scene.grab THEN scene ELSE [none |-> TRUE]

\* str.split() separates at runs of white space.
Whitespace == {" ", "\t", "\n"}

\* The length of the word s begins with.
RECURSIVE WordLen(_)
WordLen(s) ==
  IF s = <<>> \/ Head(s) \in Whitespace THEN 0 ELSE 1 + WordLen(Tail(s))

\* text.split()
RECURSIVE Split(_)
Split(s) ==
  IF s = <<>> THEN <<>>
  ELSE IF Head(s) \in Whitespace THEN Split(Tail(s))
  ELSE <<SubSeq(s, 1, WordLen(s))>> \o Split(SubSeq(s, WordLen(s) + 1, Len(s)))

\* A join that puts a newline between the words.
RECURSIVE MutJoinNewline(_)
MutJoinNewline(words) ==
  IF words = <<>> THEN <<>>
  ELSE IF Len(words) = 1 THEN words[1]
  ELSE words[1] \o <<"\n">> \o MutJoinNewline(Tail(words))

\* ' '.join(words)
RECURSIVE Join(_)
Join(words) ==
  IF words = <<>> THEN <<>>
  ELSE IF Len(words) = 1 THEN words[1]
  ELSE words[1] \o <<" ">> \o Join(Tail(words))

\* An extract_text that keeps what OCR returns as it is.
MutExtractTextRaw(image) ==
  IF image = [none |-> TRUE] THEN EmptyText
  ELSE IF image.raises THEN EmptyText
  ELSE image.out

\* ScreenCapture.extract_text
ExtractText(image) ==
  IF image = [none |-> TRUE] THEN EmptyText
  ELSE IF image.raises THEN EmptyText
  ELSE Join(Split(image.out))

\* run_screen_capture: the entry appended to self.screen_texts.
ScreenTextEntry(t, txt) == [timestamp |-> t, text |-> txt]

\* An eviction that drops the newest entry, pop() for pop(0).
MutEvictNewestScreenText(st) ==
  IF Len(st) > MaxScreenTexts THEN SubSeq(st, 1, Len(st) - 1) ELSE st

\* run_screen_capture: keep only the last MaxScreenTexts entries.
EvictScreenTexts(st) == IF Len(st) > MaxScreenTexts THEN Tail(st) ELSE st


\* ---------------------------------------------------------------- state
VARIABLES
  now,             \* the clock (time.time(), in seconds)
  faults,          \* calls of on_keystroke that will still raise
  text,            \* the keys the typist will press
  typed,           \* how many of them have been pressed
  specials,        \* presses of other special keys the run still allows
  held,            \* special keys that are down
  reel,            \* the texts the screen will show
  frame,           \* how many frames have been captured
  queries,         \* queries the user will still submit
  session,         \* SupabaseAuth.session: "none", "valid" or "expired"
  user_id,         \* SupabaseAuth.user_id
  running,         \* IntegrityAssistant.running
  screen_texts,    \* IntegrityAssistant.screen_texts
  keystrokes,      \* IntegrityAssistant.keystrokes
  data_block,      \* submit_query's data_block
  kl_running,      \* KeystrokeLogger.running
  listener,        \* the pynput listener is attached
  callback,        \* KeystrokeLogger.callback is set
  buffer,          \* KeystrokeLogger.buffer
  last_timestamp,  \* KeystrokeLogger.last_timestamp
  sensitive_mode,  \* KeystrokeLogger.sensitive_mode
  pc,              \* where each thread is
  event,           \* the key event the listener thread is handling
  key_str,         \* _on_key_press's local
  loaded,          \* the value of buffer read by `self.buffer += key_str`
  appended,        \* history: every token stored into buffer, in order
  delivered,       \* history: every content passed to the callback, in order
  before,          \* history: pendingText and the number of contents delivered
                   \* when the handler in progress was called
  pushed,          \* history: every entry appended to screen_texts, in order
  sampler_time,    \* history: the time spent in captures and sleeps by the
                   \* capture thread since its loop began, in units of 100 ms
                   \* (by both threads together when there are two)
  began,           \* history: the sampler_time at which each cycle began
  ocr_calls,       \* history: how often pytesseract.image_to_string was called
  snapshot,        \* history: the two lists as they were when data_block was built
  sent,            \* history: the context of every request posted
  shown            \* history: what display_response was called with

typistVars == <<text, typed, specials, held>>
screenVars == <<reel, frame>>
authVars == <<session, user_id>>
userVars == <<queries, authVars>>
envVars == <<now, faults, typistVars, screenVars, userVars>>
appVars == <<running, screen_texts, keystrokes, data_block>>
klVars == <<kl_running, listener, callback, buffer, last_timestamp, sensitive_mode>>
threadVars == <<pc, event, key_str, loaded>>
keyHist == <<appended, delivered, before>>
screenHist == <<pushed, sampler_time, began, ocr_calls>>
postHist == <<sent, shown>>
histVars == <<keyHist, screenHist, snapshot, postHist>>
vars == <<envVars, appVars, klVars, threadVars, histVars>>

NoEvent == [kind |-> "none", key |-> "none"]
None == [none |-> TRUE]

User == [id |-> "user-1"]

\* The state after IntegrityAssistant() is constructed and authenticate() has
\* succeeded, for a typist who will type one of the texts T and press at most
\* n other special keys, a screen that will show one of the reels R, and a
\* session whose user id is one of U, when the number of calls of on_keystroke
\* that raise is one of F.
InitOf(T, n, R, U, F) ==
  /\ now = 0
  /\ faults \in F
  /\ text \in T
  /\ typed = 0
  /\ specials = n
  /\ held = {}
  /\ reel \in R
  /\ frame = 0
  /\ queries = MaxQueries
  /\ session = "valid"
  /\ user_id \in U
  /\ running = FALSE
  /\ screen_texts = <<>>
  /\ keystrokes = <<>>
  /\ data_block = None
  /\ kl_running = FALSE
  /\ listener = FALSE
  /\ callback = FALSE
  /\ buffer = <<>>
  /\ last_timestamp = 0
  /\ sensitive_mode = FALSE
  /\ pc = [main |-> "created", listener |-> "idle", sampler |-> "unborn",
           sampler2 |-> "unborn"]
  /\ event = NoEvent
  /\ key_str = <<>>
  /\ loaded = <<>>
  /\ appended = <<>>
  /\ delivered = <<>>
  /\ before = [buffer |-> <<>>, delivered |-> 0]
  /\ pushed = <<>>
  /\ sampler_time = 0
  /\ began = <<>>
  /\ ocr_calls = 0
  /\ snapshot = None
  /\ sent = <<>>
  /\ shown = <<>>

\* The same, when on_keystroke never raises.
InitAs(T, n, R, U) == InitOf(T, n, R, U, {0})

\* The same, for a session with a user id.
InitWith(T, n, R) == InitAs(T, n, R, {User})

Init == InitWith(Texts, MaxSpecial, {<<>>})

InitSeq == InitWith({Password1}, MaxSpecialSeq, {<<>>})

InitType == InitWith({Password123}, 0, {<<>>})

InitScreen == InitWith({<<>>}, 0, Reels)

InitFill == InitWith({Hammer}, 0, {<<>>})

InitLine == InitWith(Lines, 0, {<<>>})

InitScenes == InitWith({<<>>}, 0, SceneReels)

InitPace == InitWith({<<>>}, 0, TimedReels)

InitExtract == InitWith({<<>>}, 0, OneScene)

InitBracket == InitWith({Bracketed}, 0, {<<>>})

InitRestart == InitWith({<<>>}, 0, ShortReels)

\* A session with or without a user id.
InitAuth == InitAs({OkLine}, 0, {TwoTexts}, {None, User})

\* An on_keystroke that may raise.
InitFaults == InitOf({OkHi}, 0, {<<>>}, {User}, 0..MaxFaults)

\* ---------------------------------------------------------- environment
\* A second passes.
Tick ==
  /\ now < MaxNow
  /\ now' = now + 1
  /\ UNCHANGED <<faults, typistVars, screenVars, userVars, appVars, klVars, threadVars,
                 histVars>>

\* The hour of the access token passes (_is_token_expired).
Expire ==
  /\ session = "valid"
  /\ session' = "expired"
  /\ UNCHANGED <<now, faults, typistVars, screenVars, queries, user_id, appVars, klVars,
                 threadVars, histVars>>

\* ------------------------------------------------------- the main thread
\* IntegrityAssistant.start and KeystrokeLogger.start, as main() calls them.
Start ==
  /\ pc["main"] = "created"
  /\ ~running
  /\ running' = TRUE
  /\ ~kl_running
  /\ kl_running' = TRUE
  /\ callback' = TRUE
  /\ listener' = TRUE
  /\ pc' = [pc EXCEPT !["main"] = "exec", !["sampler"] = "s_while"]
  /\ UNCHANGED <<envVars, screen_texts, keystrokes, data_block, buffer,
                 last_timestamp, sensitive_mode, event, key_str, loaded, histVars>>

\* IntegrityAssistant.stop: self.running = False.
StopFlag ==
  /\ pc["main"] = "exec"
  /\ running' = FALSE
  /\ pc' = [pc EXCEPT !["main"] = "kl_stop"]
  /\ UNCHANGED <<envVars, screen_texts, keystrokes, data_block, klVars,
                 event, key_str, loaded, histVars>>

\* KeystrokeLogger.stop: self.running = False.
StopRunning ==
  /\ pc["main"] = "kl_stop"
  /\ kl_running' = FALSE
  /\ pc' = [pc EXCEPT !["main"] = "kl_detach"]
  /\ UNCHANGED <<envVars, appVars, listener, callback, buffer, last_timestamp,
                 sensitive_mode, event, key_str, loaded, histVars>>

\* KeystrokeLogger.stop: self.listener.stop().
StopListener ==
  /\ pc["main"] = "kl_detach"
  /\ listener' = FALSE
  /\ pc' = [pc EXCEPT !["main"] = "kl_test"]
  /\ UNCHANGED <<envVars, appVars, kl_running, callback, buffer, last_timestamp,
                 sensitive_mode, event, key_str, loaded, histVars>>

\* KeystrokeLogger.stop: `if self.buffer: self._flush_buffer()`.
StopTest ==
  /\ pc["main"] = "kl_test"
  /\ pc' = [pc EXCEPT !["main"] = IF buffer # <<>> THEN "f_test" ELSE "stopped"]
  /\ UNCHANGED <<envVars, appVars, klVars, event, key_str, loaded, histVars>>

Stop == StopFlag \/ StopRunning \/ StopListener \/ StopTest

\* A client of IntegrityAssistant calls start() once more, while running or
\* after stop().
CallStart ==
  /\ pc["main"] \in {"exec", "stopped"}
  /\ pc["sampler2"] = "unborn"
  /\ pc' = [pc EXCEPT !["main"] = "start_test"]
  /\ UNCHANGED <<envVars, appVars, klVars, event, key_str, loaded, histVars>>

\* start(): `if self.running: return`; otherwise the flag is set, a new capture
\* thread is started and KeystrokeLogger.start attaches a new listener.
StartAgain ==
  /\ pc["main"] = "start_test"
  /\ IF running
     THEN /\ pc' = [pc EXCEPT !["main"] = "exec"]
          /\ UNCHANGED <<running, kl_running, callback, listener>>
     ELSE /\ running' = TRUE
          /\ kl_running' = TRUE
          /\ callback' = TRUE
          /\ listener' = TRUE
          /\ pc' = [pc EXCEPT !["main"] = "exec", !["sampler2"] = "s_while"]
  /\ UNCHANGED <<envVars, screen_texts, keystrokes, data_block, buffer,
                 last_timestamp, sensitive_mode, event, key_str, loaded, histVars>>

\* The lists a data_block refers to: it holds the list objects themselves.
Contents(ref) == IF ref = "self.screen_texts" THEN screen_texts ELSE keystrokes

\* What a reader of data_block finds in its context.
Context(db) ==
  [screen_texts |-> Contents(db.screen_texts),
   recent_keystrokes |-> Contents(db.recent_keystrokes)]

\* A submit_query that moves the keystroke entries into the data block.
MutSubmitBuildDrains ==
  /\ pc["main"] = "exec"
  /\ queries > 0
  /\ queries' = queries - 1
  /\ data_block' = [screen_texts |-> "self.screen_texts",
                    recent_keystrokes |-> "self.keystrokes",
                    user_id |-> user_id,
                    timestamp |-> now]
  /\ snapshot' = [screen_texts |-> screen_texts, recent_keystrokes |-> keystrokes]
  /\ keystrokes' = <<>>
  /\ pc' = [pc EXCEPT !["main"] = "q_send"]
  /\ UNCHANGED <<now, faults, typistVars, screenVars, authVars, running, screen_texts,
                 klVars, event, key_str, loaded, keyHist, screenHist, postHist>>

\* submit_query: the data block is assembled.
SubmitBuild ==
  /\ pc["main"] = "exec"
  /\ queries > 0
  /\ queries' = queries - 1
  /\ data_block' = [screen_texts |-> "self.screen_texts",
                    recent_keystrokes |-> "self.keystrokes",
                    user_id |-> user_id,
                    timestamp |-> now]
  /\ snapshot' = [screen_texts |-> screen_texts, recent_keystrokes |-> keystrokes]
  /\ pc' = [pc EXCEPT !["main"] = "q_send"]
  /\ UNCHANGED <<now, faults, typistVars, screenVars, authVars, running, screen_texts,
                 keystrokes, klVars, event, key_str, loaded, keyHist, screenHist,
                 postHist>>

\* get_auth_token: whether a token is returned, when refresh_token() succeeds
\* or not on an expired session.
HasToken(sess, refreshed) == sess # "none" /\ (sess = "expired" => refreshed)

\* refresh_token: the session afterwards.
Refreshed(sess, refreshed) == IF sess = "expired" /\ refreshed THEN "valid" ELSE sess

AuthError == "Authentication error: Please log in to your account."

\* submit_query: api_client.send_query(data_block) returns an error without a
\* token and posts the block as JSON with one; the result is displayed.
SubmitSend ==
  /\ pc["main"] = "q_send"
  /\ \E refreshed \in (IF session = "expired" THEN BOOLEAN ELSE {FALSE}) :
       /\ session' = Refreshed(session, refreshed)
       /\ IF HasToken(session, refreshed)
          THEN /\ sent' = Append(sent, [context |-> Context(data_block),
                                        user_id |-> data_block.user_id])
               /\ shown' = Append(shown, "response")
          ELSE /\ sent' = sent
               /\ shown' = Append(shown, AuthError)
  /\ data_block' = None
  /\ pc' = [pc EXCEPT !["main"] = "exec"]
  /\ UNCHANGED <<now, faults, typistVars, screenVars, queries, user_id, running,
                 screen_texts, keystrokes, klVars, event, key_str, loaded,
                 keyHist, screenHist, snapshot>>

SubmitQuery == SubmitBuild \/ SubmitSend

\* ---------------------------------------------------- the capture thread
\* The steps of run_screen_capture in thread t.
\* `while self.running:`.  A run ends with the reel: no cycle begins once every
\* capture of the reel is made.
CycleWhile(t) ==
  /\ pc[t] = "s_while"
  /\ running => frame < Len(reel)
  /\ pc' = [pc EXCEPT ![t] = IF running THEN "s_capture" ELSE "s_done"]
  /\ began' = IF running THEN Append(began, sampler_time) ELSE began
  /\ UNCHANGED <<envVars, appVars, klVars, event, key_str, loaded, keyHist,
                 pushed, sampler_time, ocr_calls, snapshot, postHist>>

\* capture(), extract_text(), and the append when text was found.
CycleCapture(t) ==
  /\ pc[t] = "s_capture"
  /\ frame < Len(reel)
  /\ frame' = frame + 1
  /\ sampler_time' = sampler_time + reel[frame + 1].took
  /\ ocr_calls' = ocr_calls + (IF Capture(reel[frame + 1]) = [none |-> TRUE] THEN 0 ELSE 1)
  /\ LET txt == ExtractText(Capture(reel[frame + 1])) IN
       IF txt = EmptyText
       THEN /\ UNCHANGED <<screen_texts, pushed>>
            /\ pc' = [pc EXCEPT ![t] = "s_sleep"]
       ELSE IF reel[frame + 1].push
       THEN /\ screen_texts' = Append(screen_texts, ScreenTextEntry(now, txt))
            /\ pushed' = Append(pushed, ScreenTextEntry(now, txt))
            /\ pc' = [pc EXCEPT ![t] = "s_evict"]
       ELSE /\ UNCHANGED <<screen_texts, pushed>>
            /\ pc' = [pc EXCEPT ![t] = "s_except"]
  /\ UNCHANGED <<now, faults, typistVars, reel, userVars, running, keystrokes, data_block,
                 klVars, event, key_str, loaded, keyHist, began, snapshot, postHist>>

\* `if len(self.screen_texts) > 30: self.screen_texts.pop(0)`.
CycleEvict(t) ==
  /\ pc[t] = "s_evict"
  /\ screen_texts' = EvictScreenTexts(screen_texts)
  /\ pc' = [pc EXCEPT ![t] = "s_sleep"]
  /\ UNCHANGED <<envVars, running, keystrokes, data_block, klVars,
                 event, key_str, loaded, histVars>>

\* time.sleep(0.5).
CycleSleep(t) ==
  /\ pc[t] = "s_sleep"
  /\ sampler_time' = sampler_time + Period
  /\ pc' = [pc EXCEPT ![t] = "s_while"]
  /\ UNCHANGED <<envVars, appVars, klVars, event, key_str, loaded, keyHist,
                 pushed, began, ocr_calls, snapshot, postHist>>

\* The thread that the first start() creates.
SamplerWhile == CycleWhile("sampler")

SamplerCapture == CycleCapture("sampler")

SamplerEvict == CycleEvict("sampler")

SamplerSleep == CycleSleep("sampler")

\* The try body of run_screen_capture.
RunScreenCapture == SamplerWhile \/ SamplerCapture \/ SamplerEvict \/ SamplerSleep

\* The same in the thread that a second start() creates.
RunSecondCapture ==
  \/ CycleWhile("sampler2")
  \/ CycleCapture("sampler2")
  \/ CycleEvict("sampler2")
  \/ CycleSleep("sampler2")

\* `except Exception as e:`, the message and time.sleep(1).
CycleExcept(t) ==
  /\ pc[t] = "s_except"
  /\ sampler_time' = sampler_time + Backoff
  /\ pc' = [pc EXCEPT ![t] = "s_while"]
  /\ UNCHANGED <<envVars, appVars, klVars, event, key_str, loaded, keyHist,
                 pushed, began, ocr_calls, snapshot, postHist>>

SamplerExcept == CycleExcept("sampler")

\* ------------------------------------------------------- _flush_buffer
\* Where thread t goes on when its _flush_buffer returns.
AfterFlush(t) ==
  IF t = "main" THEN "stopped"
  ELSE IF event.kind = "release" THEN "r_shift" ELSE "idle"

\* `if self.buffer and self.callback:`
FlushTest(t) ==
  /\ pc[t] = "f_test"
  /\ pc' = [pc EXCEPT ![t] = IF buffer # <<>> /\ callback THEN "f_call" ELSE "f_reset"]
  /\ UNCHANGED <<envVars, appVars, klVars, event, key_str, loaded, histVars>>

\* `self.callback(self.buffer)`: on_keystroke appends the entry.
FlushCall(t) ==
  /\ pc[t] = "f_call"
  /\ keystrokes' = Append(keystrokes, KeystrokeEntry(now, buffer))
  /\ delivered' = Append(delivered, buffer)
  /\ pc' = [pc EXCEPT ![t] = "f_evict"]
  /\ UNCHANGED <<envVars, running, screen_texts, data_block, klVars,
                 event, key_str, loaded, appended, before, screenHist,
                 snapshot, postHist>>

\* `self.callback(self.buffer)` when on_keystroke raises before its append
\* (time.strftime, or the append when memory is exhausted): _flush_buffer is
\* left without the reset.  In _on_key_press the exception reaches the except
\* clause; from _on_key_release it reaches pynput, which stops the listener;
\* from stop() it reaches the caller.
FlushRaise(t) ==
  /\ pc[t] = "f_call"
  /\ faults > 0
  /\ faults' = faults - 1
  /\ listener' = IF t = "listener" /\ event.kind = "release" THEN FALSE ELSE listener
  /\ pc' = [pc EXCEPT ![t] =
              IF t = "main" THEN "stopped"
              ELSE IF event.kind = "press" THEN "p_except" ELSE "idle"]
  /\ UNCHANGED <<now, typistVars, screenVars, userVars, appVars, kl_running, callback,
                 buffer, last_timestamp, sensitive_mode, event, key_str, loaded,
                 histVars>>

\* on_keystroke: `if len(self.keystrokes) > 100: self.keystrokes.pop(0)`.
FlushEvict(t) ==
  /\ pc[t] = "f_evict"
  /\ keystrokes' = EvictKeystrokes(keystrokes)
  /\ pc' = [pc EXCEPT ![t] = "f_reset"]
  /\ UNCHANGED <<envVars, running, screen_texts, data_block, klVars,
                 event, key_str, loaded, histVars>>

\* A flush that leaves the buffer as it is.
MutFlushResetKeeps(t) ==
  /\ pc[t] = "f_reset"
  /\ pc' = [pc EXCEPT ![t] = "f_stamp"]
  /\ UNCHANGED <<envVars, appVars, klVars, event, key_str, loaded, histVars>>

\* `self.buffer = ""`
FlushReset(t) ==
  /\ pc[t] = "f_reset"
  /\ buffer' = <<>>
  /\ pc' = [pc EXCEPT ![t] = "f_stamp"]
  /\ UNCHANGED <<envVars, appVars, kl_running, listener, callback, last_timestamp,
                 sensitive_mode, event, key_str, loaded, histVars>>

\* A flush that returns without reading the clock.
MutFlushStampStale(t) ==
  /\ pc[t] = "f_stamp"
  /\ pc' = [pc EXCEPT ![t] = AfterFlush(t)]
  /\ UNCHANGED <<envVars, appVars, klVars, event, key_str, loaded, histVars>>

\* `self.last_timestamp = time.time()`, and the return.
FlushStamp(t) ==
  /\ pc[t] = "f_stamp"
  /\ last_timestamp' = now
  /\ pc' = [pc EXCEPT ![t] = AfterFlush(t)]
  /\ UNCHANGED <<envVars, appVars, kl_running, listener, callback, buffer,
                 sensitive_mode, event, key_str, loaded, histVars>>

Flush(t) ==
  \/ FlushTest(t)
  \/ FlushCall(t)
  \/ FlushEvict(t)
  \/ FlushReset(t)
  \/ FlushStamp(t)

\* --------------------------------------------------- the listener thread
\* A press handler without the test of self.running.
MutDeliverAlways(kind, k) ==
  /\ listener
  /\ pc["listener"] = "idle"
  /\ event' = [kind |-> kind, key |-> k]
  /\ before' = [buffer |-> buffer, delivered |-> Len(delivered)]
  /\ pc' = [pc EXCEPT !["listener"] = IF kind = "release" THEN "r_test" ELSE "p_check"]

\* The listener calls a handler with key k.  _on_key_press begins with
\* `if not self.running: return`; _on_key_release has no such test.
Deliver(kind, k) ==
  /\ listener
  /\ pc["listener"] = "idle"
  /\ event' = [kind |-> kind, key |-> k]
  /\ before' = [buffer |-> buffer, delivered |-> Len(delivered)]
  /\ pc' = [pc EXCEPT !["listener"] =
              IF kind = "release" THEN "r_test"
              ELSE IF kl_running THEN "p_check" ELSE "idle"]

\* The typist presses the next key of the text.
PressNext ==
  LET k == text[typed + 1] IN
    /\ typed < Len(text)
    /\ k \in SpecialKeys => k \notin held
    /\ Deliver("press", k)
    /\ typed' = typed + 1
    /\ held' = IF k \in SpecialKeys THEN held \cup {k} ELSE held
    /\ UNCHANGED <<now, faults, text, specials, screenVars, userVars, appVars, klVars,
                   key_str, loaded, appended, delivered, screenHist,
                   snapshot, postHist>>

\* The typist presses a special key.
PressSpecial ==
  \E k \in SpecialKeys \ held :
    /\ specials > 0
    /\ Deliver("press", k)
    /\ specials' = specials - 1
    /\ held' = held \cup {k}
    /\ UNCHANGED <<now, faults, text, typed, screenVars, userVars, appVars, klVars,
                   key_str, loaded, appended, delivered, screenHist,
                   snapshot, postHist>>

\* The typist releases a special key.
Release ==
  \E k \in held :
    /\ Deliver("release", k)
    /\ held' = held \ {k}
    /\ UNCHANGED <<now, faults, text, typed, specials, screenVars, userVars, appVars, klVars,
                   key_str, loaded, appended, delivered, screenHist,
                   snapshot, postHist>>

KeyEvent == PressNext \/ PressSpecial \/ Release

\* A press handler whose classifier reads pendingText with the token of this
\* press already in it.
MutPressCheckAfterAppend ==
  /\ pc["listener"] = "p_check"
  /\ sensitive_mode' = CheckSensitiveContext(buffer \o KeyToken(event.key), sensitive_mode)
  /\ key_str' = KeyStr(event.key, sensitive_mode')
  /\ pc' = [pc EXCEPT !["listener"] = "p_load"]
  /\ UNCHANGED <<envVars, appVars, kl_running, listener, callback, buffer,
                 last_timestamp, event, loaded, histVars>>

\* _check_sensitive_context(), then the token and its mask.
PressCheck ==
  /\ pc["listener"] = "p_check"
  /\ sensitive_mode' = CheckSensitiveContext(buffer, sensitive_mode)
  /\ key_str' = KeyStr(event.key, sensitive_mode')
  /\ pc' = [pc EXCEPT !["listener"] = "p_load"]
  /\ UNCHANGED <<envVars, appVars, kl_running, listener, callback, buffer,
                 last_timestamp, event, loaded, histVars>>

\* `self.buffer += key_str` reads self.buffer ...
PressLoad ==
  /\ pc["listener"] = "p_load"
  /\ loaded' = buffer
  /\ pc' = [pc EXCEPT !["listener"] = "p_store"]
  /\ UNCHANGED <<envVars, appVars, klVars, event, key_str, histVars>>

\* ... and stores the concatenation.
PressStore ==
  /\ pc["listener"] = "p_store"
  /\ buffer' = loaded \o key_str
  /\ appended' = Append(appended, key_str)
  /\ pc' = [pc EXCEPT !["listener"] = "p_cond"]
  /\ UNCHANGED <<envVars, appVars, kl_running, listener, callback, last_timestamp,
                 sensitive_mode, event, key_str, loaded, delivered, before, screenHist,
                 snapshot, postHist>>

\* The flush condition.
PressCond ==
  /\ pc["listener"] = "p_cond"
  /\ pc' = [pc EXCEPT !["listener"] =
              IF ShouldFlush(now, last_timestamp, key_str, buffer)
              THEN "f_test" ELSE "idle"]
  /\ UNCHANGED <<envVars, appVars, klVars, event, key_str, loaded, histVars>>

\* A release handler that flushes on Enter only.
MutReleaseTestEnterOnly ==
  /\ pc["listener"] = "r_test"
  /\ pc' = [pc EXCEPT !["listener"] =
              IF event.key = "enter" THEN "f_test" ELSE "r_shift"]
  /\ UNCHANGED <<envVars, appVars, klVars, event, key_str, loaded, histVars>>

\* _on_key_release: `if key == Key.enter or key == Key.tab: self._flush_buffer()`.
ReleaseTest ==
  /\ pc["listener"] = "r_test"
  /\ pc' = [pc EXCEPT !["listener"] =
              IF event.key \in {"enter", "tab"} THEN "f_test" ELSE "r_shift"]
  /\ UNCHANGED <<envVars, appVars, klVars, event, key_str, loaded, histVars>>

\* _on_key_release: `if key == Key.tab and Key.shift in self._active_keys()`.
ReleaseShift ==
  /\ pc["listener"] = "r_shift"
  /\ sensitive_mode' = IF ExitsSensitive(event.key) THEN FALSE ELSE sensitive_mode
  /\ pc' = [pc EXCEPT !["listener"] = "idle"]
  /\ UNCHANGED <<envVars, appVars, kl_running, listener, callback, buffer,
                 last_timestamp, event, key_str, loaded, histVars>>

\* `except Exception as e:` and the message; the handler returns.
PressExcept ==
  /\ pc["listener"] = "p_except"
  /\ pc' = [pc EXCEPT !["listener"] = "idle"]
  /\ UNCHANGED <<envVars, appVars, klVars, event, key_str, loaded, histVars>>

OnKeyPress == PressCheck \/ PressLoad \/ PressStore \/ PressCond

OnKeyRelease == ReleaseTest \/ ReleaseShift

\* ------------------------------------------------------- specifications
\* The key logger under every interleaving of the listener thread's handlers
\* with stop() on the main thread, for a fast typist who also uses Enter, Tab
\* and Shift: the whole run falls within one second.
Next ==
  \/ Start
  \/ Stop
  \/ KeyEvent
  \/ OnKeyPress
  \/ OnKeyRelease
  \/ Flush("listener")
  \/ Flush("main")

Spec == Init /\ [][Next]_vars

\* The key logger when stop() does not overlap a key handler: the handlers of
\* the listener thread run to completion before stop() begins, and no key event
\* arrives once it has begun.
StopSeq == (Stop \/ Flush("main")) /\ pc["listener"] = "idle"

\* The same typist, with a longer text.
NextSeq ==
  \/ Start
  \/ StopSeq
  \/ KeyEvent /\ pc["main"] = "exec"
  \/ OnKeyPress
  \/ OnKeyRelease
  \/ Flush("listener")

SpecSeq == InitSeq /\ [][NextSeq]_vars

\* The fast typist of Spec, when stop() does not overlap a key handler.
SpecKeys == Init /\ [][NextSeq]_vars

\* A typist who types the text at any pace and presses no special key.
NextType ==
  \/ Tick
  \/ Start
  \/ StopSeq
  \/ PressNext /\ pc["main"] = "exec"
  \/ OnKeyPress
  \/ Flush("listener")

SpecType == InitType /\ [][NextType]_vars

\* The same for a typist who types a left bracket and Enter among the letters.
SpecBracket == InitBracket /\ [][NextType]_vars

\* The capture thread, submit_query and stop(), with no key pressed.
NextScreen ==
  \/ Start
  \/ Stop
  \/ SubmitQuery
  \/ RunScreenCapture

SpecScreen == InitScreen /\ [][NextScreen]_vars

\* A typist who hammers Enter and Tab, with stop() at any moment.
NextFill ==
  \/ Start
  \/ Stop
  \/ PressNext
  \/ Release
  \/ OnKeyPress
  \/ OnKeyRelease
  \/ Flush("listener")
  \/ Flush("main")

SpecFill == InitFill /\ [][NextFill]_vars

\* A typist who types a long line of plain characters at any pace, with stop()
\* at any moment.
NextLine ==
  \/ Tick
  \/ Start
  \/ Stop
  \/ PressNext
  \/ OnKeyPress
  \/ Flush("listener")
  \/ Flush("main")

SpecLine == InitLine /\ [][NextLine]_vars

\* The capture thread and stop(), on a screen where every kind of capture
\* happens, with no key pressed and no query.
NextScenes ==
  \/ Start
  \/ Stop
  \/ RunScreenCapture
  \/ SamplerExcept

SpecScenes == InitScenes /\ [][NextScenes]_vars

\* The capture thread and stop(), when every capture succeeds and takes some
\* time.
NextPace ==
  \/ Start
  \/ Stop
  \/ RunScreenCapture

SpecPace == InitPace /\ [][NextPace]_vars

\* The capture thread alone on every reel, the overflowing one included, with
\* stop() at any moment and no query.
SpecReel == InitScreen /\ [][NextPace]_vars

\* One capture cycle on any OCR output, with stop() at any moment.
SpecExtract == InitExtract /\ [][NextPace]_vars

\* start() and stop() called in any order by a client of IntegrityAssistant,
\* with no key pressed and no query.
NextRestart ==
  \/ Start
  \/ Stop
  \/ CallStart
  \/ StartAgain
  \/ RunScreenCapture
  \/ RunSecondCapture

SpecRestart == InitRestart /\ [][NextRestart]_vars

\* Queries submitted while the screen is captured and keys are typed, with a
\* session that may expire and may lack a user id.
NextAuth ==
  \/ Start
  \/ Stop
  \/ Expire
  \/ SubmitQuery
  \/ RunScreenCapture
  \/ PressNext
  \/ OnKeyPress
  \/ Flush("listener")
  \/ Flush("main")

SpecAuth == InitAuth /\ [][NextAuth]_vars

\* A typist at any pace whose keys reach an on_keystroke that may raise, when
\* stop() does not overlap a key handler.
NextFaults ==
  \/ Tick
  \/ Start
  \/ StopSeq
  \/ FlushRaise("main") /\ pc["listener"] = "idle"
  \/ (PressNext \/ Release) /\ pc["main"] = "exec"
  \/ OnKeyPress
  \/ PressExcept
  \/ OnKeyRelease
  \/ Flush("listener")
  \/ FlushRaise("listener")

SpecFaults == InitFaults /\ [][NextFaults]_vars

\* ------------------------------------------------------------ properties
RECURSIVE Concat(_)
Concat(q) == IF q = <<>> THEN <<>> ELSE Head(q) \o Concat(Tail(q))

\* a is b with some elements left out.
RECURSIVE IsSubseq(_, _)
IsSubseq(a, b) ==
  IF a = <<>> THEN TRUE
  ELSE IF b = <<>> THEN FALSE
  ELSE IF Head(a) = Head(b) THEN IsSubseq(Tail(a), Tail(b))
  ELSE IsSubseq(a, Tail(b))

KeystrokeContents == [i \in 1..Len(keystrokes) |-> keystrokes[i].content]

Star == <<"*">>

\* pendingText has held the whole word "password": every value of the buffer
\* goes on to a flush or is still there.
PasswordAppeared ==
  \/ Contains(buffer, Password)
  \/ \E i \in 1..Len(delivered) : Contains(delivered[i], Password)

\* C1 (SpecType, the typist types password123): once "password" has appeared in
\* pendingText, every token appended after the word is '*', whatever flush
\* happened on or after the press that completed the word.
C1_RedactionLatch ==
  PasswordAppeared =>
    \A i \in (Len(Password) + 1)..Len(appended) : appended[i] = Star

\* C2 (SpecSeq): in sensitive mode, the release handler of Tab, run while Shift
\* is held, ends with sensitive mode cleared.
C2_RedactionEscape ==
  [][(/\ pc["listener"] = "r_shift"
      /\ event = [kind |-> "release", key |-> "tab"]
      /\ "shift" \in held
      /\ sensitive_mode)
     => ~sensitive_mode']_vars

\* C3 (Spec): whenever sensitive mode is true as a key press stores its token,
\* the token appended to pendingText is '*', for printable and special keys
\* alike, and that '*' is what goes on to the KeystrokeBuffer.
C3_MaskedWhileSensitive ==
  [][(pc["listener"] = "p_store" /\ pc'["listener"] = "p_cond" /\ sensitive_mode)
     => (buffer' = loaded \o Star /\ Last(appended') = Star)]_vars

C3_Witness ==
  /\ pc["listener"] = "p_cond"
  /\ event.kind = "press"
  /\ event.key \in SpecialKeys
  /\ sensitive_mode
  /\ Last(appended) = Star

\* C4 (SpecScreen): as long as a data block exists, the lists in its context
\* are what the two buffers held when it was built.
C4_SnapshotIsolation ==
  data_block # None => Context(data_block) = snapshot

\* C5 (SpecReel): between capture cycles screen_texts holds at most 30
\* entries, and they are the most recently pushed ones in push order.
C5_ScreenTextsBounded ==
  pc["sampler"] # "s_evict" =>
    /\ Len(screen_texts) <= MaxScreenTexts
    /\ screen_texts = LastN(pushed, MaxScreenTexts)

C5_Witness ==
  /\ pc["sampler"] = "s_sleep"
  /\ Len(pushed) > MaxScreenTexts
  /\ Len(screen_texts) = MaxScreenTexts
  /\ Head(screen_texts) # Head(pushed)

C7_PasswordScenario ==
  (/\ typed = Len(Password123)
   /\ pc["listener"] = "idle"
   /\ keystrokes # <<>>
   /\ Len(keystrokes[1].content) = Len(Password123))
  => (/\ Len(keystrokes) = 1
      /\ keystrokes[1].content = Password \o <<"*", "*", "*">>)

C7_Witness ==
  /\ pc["main"] = "stopped"
  /\ typed = Len(Password123)
  /\ KeystrokeContents = <<Password \o <<"*", "*", "*">>>>

\* The listener thread returns from the press handler of a special key while
\* the logger is running.
SpecialPressReturns ==
  /\ event.kind = "press"
  /\ event.key \in SpecialKeys
  /\ pc["listener"] \in {"p_cond", "f_stamp"}
  /\ pc'["listener"] = "idle"
  /\ kl_running

\* The handler has appended an entry with the key's bracketed token and has
\* left pendingText empty.
SpecialPressFlushed ==
  /\ buffer' = <<>>
  /\ keystrokes' # <<>>
  /\ Contains(Last(keystrokes').content, KeyToken(event.key))

\* C8 as stated (Spec): every press of a special key while the logger is
\* running, in any state, has appended an entry holding the key's bracketed
\* token and left pendingText empty when its handler returns.
C8_SpecialKeyFlushAnyState ==
  [][SpecialPressReturns => SpecialPressFlushed]_vars

\* C8 as amended (Spec): the same, for presses handled with sensitive mode
\* false.
C8_SpecialKeyFlushNormal ==
  [][(SpecialPressReturns /\ ~sensitive_mode) => SpecialPressFlushed]_vars

C8_Witness ==
  /\ pc["listener"] = "idle"
  /\ event.kind = "press"
  /\ event.key \in SpecialKeys
  /\ kl_running
  /\ ~sensitive_mode
  /\ buffer = <<>>
  /\ keystrokes # <<>>
  /\ Contains(Last(keystrokes).content, KeyToken(event.key))
  /\ Len(Last(keystrokes).content) > Len(KeyToken(event.key))

\* C9 (Spec): once stop() has returned and no handler is in flight,
\* pendingText is empty and every token appended to it has been delivered.
C9_NoTrailingInputDropped ==
  (pc["main"] = "stopped" /\ pc["listener"] = "idle") =>
    /\ buffer = <<>>
    /\ IsSubseq(Concat(appended), Concat(delivered))

FlushSteps == {"f_test", "f_call", "f_evict", "f_reset", "f_stamp"}

\* C10 (Spec): no step of a flush changes sensitive mode, and sensitive mode
\* goes from true to false only at the end of the release handler of Tab while
\* Shift is held.
C10_StickyLatch ==
  [][/\ (\E t \in {"main", "listener"} : pc[t] \in FlushSteps /\ pc'[t] # pc[t])
        => sensitive_mode' = sensitive_mode
     /\ (sensitive_mode /\ ~sensitive_mode')
        => (/\ pc["listener"] = "r_shift"
            /\ event = [kind |-> "release", key |-> "tab"]
            /\ "shift" \in held)]_vars

C10_Witness ==
  /\ sensitive_mode
  /\ pc["listener"] = "idle"
  /\ event = [kind |-> "release", key |-> "tab"]
  /\ delivered # <<>>
  /\ Contains(Last(delivered), Star)

\* Thread t returns from _flush_buffer.
FlushReturns(t) == pc[t] = "f_stamp" /\ pc'[t] # "f_stamp"

\* C11 as stated (SpecType): when a flush returns, the redaction state is
\* {sensitive mode false, pendingText empty, lastFlushTime the time of the
\* flush}.
C11_FlushResetsAll ==
  [][\A t \in {"main", "listener"} :
       FlushReturns(t) =>
         (~sensitive_mode' /\ buffer' = <<>> /\ last_timestamp' = now)]_vars

\* C11 as amended (SpecType): when a flush that overlaps no handler of another
\* thread returns, pendingText is empty and lastFlushTime is the time of the
\* flush; no step of the flush changes sensitive mode.
C11_FlushResetsText ==
  [][\A t \in {"main", "listener"} :
       /\ FlushReturns(t) => (buffer' = <<>> /\ last_timestamp' = now)
       /\ (pc[t] \in FlushSteps /\ pc'[t] # pc[t]) => sensitive_mode' = sensitive_mode]_vars

C11_Witness ==
  /\ pc["listener"] = "idle"
  /\ sensitive_mode
  /\ buffer = <<>>
  /\ now > 0
  /\ last_timestamp = now
  /\ delivered # <<>>
  /\ Contains(Last(delivered), Star)

\* C12 (Spec): every entry of the KeystrokeBuffer has non-empty content, and
\* a flush step appends an entry only when pendingText is non-empty.
C12_NoEmptyEntry ==
  /\ \A i \in 1..Len(keystrokes) : keystrokes[i].content # <<>>
  /\ \A i \in 1..Len(delivered) : delivered[i] # <<>>

\* C13 (SpecLine): whenever no press handler is running pendingText is at most
\* 20 characters long and no entry is longer than 21; and 21 plain characters
\* typed within the second of construction, while the logger is running, have
\* produced one entry of exactly those 21 tokens.
C13_LengthFlush ==
  /\ pc["listener"] = "idle" => Len(buffer) <= MaxBufferLen
  /\ \A i \in 1..Len(delivered) : Len(delivered[i]) <= MaxBufferLen + 1
  /\ (/\ now = 0
      /\ kl_running
      /\ pc["listener"] = "idle"
      /\ Len(appended) >= MaxBufferLen + 1)
     => (/\ Len(keystrokes) = 1
         /\ keystrokes[1].content = Concat(SubSeq(appended, 1, MaxBufferLen + 1))
         /\ Len(keystrokes[1].content) = MaxBufferLen + 1
         /\ buffer = Concat(SubSeq(appended, MaxBufferLen + 2, Len(appended))))

C13_Witness ==
  /\ now = 0
  /\ kl_running
  /\ pc["listener"] = "idle"
  /\ Len(appended) = MaxBufferLen + 2
  /\ Len(keystrokes) = 1
  /\ Len(keystrokes[1].content) = MaxBufferLen + 1
  /\ Len(buffer) = 1

\* C14 (SpecKeys): when the release handler has done its flush test, then after
\* a release of Enter or Tab pendingText is empty and, if it was non-empty when
\* the handler was called, exactly one entry was appended, with that content;
\* after a release of any other key pendingText and the KeystrokeBuffer are
\* what they were when the handler was called.
C14_ReleaseFlush ==
  pc["listener"] = "r_shift" =>
    IF event.key \in {"enter", "tab"}
    THEN /\ buffer = <<>>
         /\ IF before.buffer # <<>>
            THEN /\ delivered = Append(SubSeq(delivered, 1, before.delivered), before.buffer)
                 /\ KeystrokeContents = delivered
            ELSE /\ Len(delivered) = before.delivered
                 /\ KeystrokeContents = delivered
    ELSE /\ buffer = before.buffer
         /\ Len(delivered) = before.delivered
         /\ KeystrokeContents = delivered

\* A release of Enter has flushed a pendingText that no press flushed.
C14_Witness ==
  /\ pc["listener"] = "r_shift"
  /\ event = [kind |-> "release", key |-> "enter"]
  /\ before.buffer # <<>>
  /\ ~Contains(before.buffer, <<"[">>)
  /\ Len(before.buffer) <= MaxBufferLen
  /\ keystrokes # <<>>
  /\ Last(keystrokes).content = before.buffer
  /\ buffer = <<>>

\* The texts of the captures made so far that have text, in order, those
\* whose append raised left out.
RECURSIVE TextsOf(_)
TextsOf(scenes) ==
  IF scenes = <<>> THEN <<>>
  ELSE (IF /\ Head(scenes).grab
           /\ ~Head(scenes).raises
           /\ Head(scenes).push
           /\ \E n \in 1..Len(Head(scenes).out) : Head(scenes).out[n] \notin Whitespace
        THEN <<Head(scenes).out>>
        ELSE <<>>) \o TextsOf(Tail(scenes))

ScreenTextContents == [n \in 1..Len(screen_texts) |-> screen_texts[n].text]

\* C15 (SpecScenes): each capture that yields text has appended exactly one
\* entry (unless the append itself raised) and each capture of a blank screen,
\* without a screenshot or with an OCR error has appended none, so the texts
\* of the ScreenTextBuffer are the texts captured, in order, and none of them
\* is empty.
C15_OneEntryPerText ==
  /\ ScreenTextContents = TextsOf(SubSeq(reel, 1, frame))
  /\ \A n \in 1..Len(screen_texts) : screen_texts[n].text # EmptyText

\* The cycles have returned "A", "", "B".
C15_Witness ==
  /\ reel = <<Shows(<<"A">>), NoImage, Shows(<<"B">>)>>
  /\ frame = 3
  /\ pc["sampler"] = "s_sleep"
  /\ ScreenTextContents = << <<"A">>, <<"B">> >>

\* The capture, the extraction or the push of this cycle fails.
Failed(scene) == ~scene.grab \/ scene.raises \/ ~scene.push

\* C16 (SpecScenes): a cycle in which the capture, the extraction or the push
\* fails appends no entry and goes on to the 1 s backoff.
C16_FailedCycleBacksOff ==
  [][(/\ pc["sampler"] = "s_capture"
      /\ pc'["sampler"] # "s_capture"
      /\ Failed(reel[frame + 1]))
     => (/\ screen_texts' = screen_texts
         /\ pc'["sampler"] = "s_except")]_vars

\* C18 (SpecPace): when every capture succeeds and takes less than the
\* period, successive cycles begin exactly one period apart.
C18_FixedPeriod ==
  \A n \in 1..(Len(began) - 1) : began[n + 1] - began[n] = Period

\* C17 (Spec): the final flush of stop() duplicates no entry already in the
\* KeystrokeBuffer: it does not bring the characters recorded above the
\* characters appended to pendingText.
C17_StopKeepsEntries ==
  [][(pc["main"] = "f_call" /\ pc'["main"] = "f_evict")
     => Len(Concat(KeystrokeContents')) <= Len(Concat(appended'))]_vars

\* C19 (SpecAuth): a query whose data block was assembled with an absent user
\* id is posted to the remote service, exactly once, with the absent user id.
C19_AbsentUserStillSent ==
  [][(/\ pc["main"] = "q_send"
      /\ pc'["main"] = "exec"
      /\ data_block.user_id = None)
     => (/\ Len(sent') = Len(sent) + 1
         /\ Last(sent').user_id = None)]_vars

\* A step of submit_query.
SubmitStep ==
  \/ pc["main"] = "exec" /\ pc'["main"] = "q_send"
  \/ pc["main"] = "q_send" /\ pc'["main"] = "exec"

\* C20 (SpecAuth): no step of submit_query changes the ScreenTextBuffer, the
\* KeystrokeBuffer, pendingText or sensitive mode, whether the request is
\* posted or refused.
C20_SnapshotReadsOnly ==
  [][SubmitStep => UNCHANGED <<screen_texts, keystrokes, buffer, sensitive_mode>>]_vars

\* A query was refused for want of a token while both buffers held entries
\* and a key was pending.
C20_Witness ==
  /\ pc["main"] = "exec"
  /\ queries < MaxQueries
  /\ shown # <<>>
  /\ Last(shown) = AuthError
  /\ Len(screen_texts) = 2
  /\ keystrokes # <<>>
  /\ buffer # <<>>

\* The press handler returns from its except clause.
PressSkipped == pc["listener"] = "p_except" /\ pc'["listener"] = "idle"

\* C21 (SpecFaults): when a press handler has caught an error, pendingText and
\* the KeystrokeBuffer are what they were when the handler was called.
C21_FailedPressSkipped ==
  [][PressSkipped =>
       (/\ buffer' = before.buffer
        /\ Len(delivered') = before.delivered
        /\ KeystrokeContents' = delivered')]_vars

\* The characters of s that are not white space, in order, each with whether
\* it begins a word.
RECURSIVE Letters(_, _)
Letters(s, first) ==
  IF s = <<>> THEN <<>>
  ELSE IF Head(s) \in Whitespace THEN Letters(Tail(s), TRUE)
  ELSE <<[char |-> Head(s), first |-> first]>> \o Letters(Tail(s), FALSE)

\* r is s with every run of white space replaced by one space and no white
\* space at either end.
IsNormalized(r, s) ==
  /\ Letters(r, TRUE) = Letters(s, TRUE)
  /\ \A n \in 1..Len(r) : r[n] \in Whitespace => r[n] = " "
  /\ \A n \in 1..(Len(r) - 1) : ~(r[n] = " " /\ r[n + 1] = " ")
  /\ r # <<>> => (r[1] # " " /\ r[Len(r)] # " ")

\* C22 (SpecExtract): for every capture made, extract_text returns "" for an
\* absent image, without a call of OCR, and "" when OCR raises; otherwise it
\* returns the OCR output with every run of spaces, tabs and newlines replaced
\* by one space and none at either end, and returns that text unchanged when
\* applied to it again; a text that is not empty is the text of the entry
\* pushed.
C22_ExtractText ==
  /\ ocr_calls = Cardinality({n \in 1..frame : reel[n].grab})
  /\ \A n \in 1..frame :
       LET image == Capture(reel[n])
           r == ExtractText(image)
       IN  /\ ~reel[n].grab => (image = None /\ r = EmptyText)
           /\ (reel[n].grab /\ reel[n].raises) => r = EmptyText
           /\ (reel[n].grab /\ ~reel[n].raises) =>
                (/\ IsNormalized(r, reel[n].out)
                 /\ ExtractText(Shows(r)) = r)
           /\ r # EmptyText => (pushed # <<>> /\ Last(pushed).text = r)

\* OCR returned "A\n\tB" and the entry pushed holds "A B".
C22_Witness ==
  /\ frame = 1
  /\ reel = <<Shows(<<"A", "\n", "\t", "B">>)>>
  /\ pc["sampler"] = "s_sleep"
  /\ screen_texts # <<>>
  /\ screen_texts[1].text = <<"A", " ", "B">>

\* C23 (SpecScreen): every context the transport has read for a request holds
\* at most 30 screen-text entries and at most 100 keystroke entries.
C23_SnapshotWithinCapacity ==
  \A n \in 1..Len(sent) :
    /\ Len(sent[n].context.screen_texts) <= MaxScreenTexts
    /\ Len(sent[n].context.recent_keystrokes) <= MaxKeystrokes

\* The timestamps of the entries of q never decrease from oldest to newest.
Chronological(q) ==
  \A n \in 1..(Len(q) - 1) : q[n].timestamp <= q[n + 1].timestamp

\* C24 (Spec): in each buffer the timestamps never decrease from oldest to
\* newest, and the listener thread and stop() are never both between the
\* append and the eviction of on_keystroke.
C24_OrderedSingleWriter ==
  /\ Chronological(screen_texts)
  /\ Chronological(keystrokes)
  /\ ~(pc["listener"] = "f_evict" /\ pc["main"] = "f_evict")

\* C25 (Spec): no token is delivered twice: the contents delivered to the
\* KeystrokeBuffer, put end to end, are the tokens appended to pendingText with
\* some left out.
C25_DeliveredAtMostOnce ==
  IsSubseq(Concat(delivered), Concat(appended))

\* One of the ten markers is a substring of s in lower case.
HasMarker(s) ==
  \E m \in {Password, <<"p", "a", "s", "s", "w", "d">>, <<"p", "w", "d">>,
             <<"p", "i", "n">>, <<"c", "r", "e", "d", "i", "t">>,
             <<"c", "a", "r", "d">>, <<"c", "v", "v">>, <<"s", "s", "n">>,
             <<"s", "o", "c", "i", "a", "l">>, <<"s", "e", "c", "r", "e", "t">>} :
    Contains(Lower(s), m)

\* The press handler runs the classifier and resolves its token.
Classifies == pc["listener"] = "p_check" /\ pc'["listener"] = "p_load"

\* C26 (SpecKeys): a press leaves sensitive mode true if it was, and otherwise
\* enters it exactly when pendingText as it was when the handler was called,
\* in lower case, holds a marker; the token of the press is masked exactly
\* when sensitive mode is then true, so the key that completes a marker is
\* appended as it is.
C26_ClassifierBeforeAppend ==
  [][Classifies =>
       (/\ sensitive_mode' = (sensitive_mode \/ HasMarker(before.buffer))
        /\ key_str' = (IF sensitive_mode' THEN Star ELSE KeyToken(event.key)))]_vars

\* P, i, N were appended as they are and the press of 4 is masked.
C26_Witness ==
  /\ pc["listener"] = "p_load"
  /\ event = [kind |-> "press", key |-> "4"]
  /\ before.buffer = <<"P", "i", "N">>
  /\ appended = << <<"P">>, <<"i">>, <<"N">> >>
  /\ sensitive_mode
  /\ key_str = Star

\* C27 (SpecType, the typist types password123): when the first flush came
\* between two keystrokes of "password", so that pendingText never held the
\* whole word, sensitive mode is not entered and every key typed, the ones
\* after the word included, is appended as it is.
C27_FlushBoundaryGap ==
  (delivered # <<>> /\ Len(delivered[1]) < Len(Password)) =>
    /\ ~sensitive_mode
    /\ \A n \in 1..Len(appended) : appended[n] = <<Password123[n]>>

\* "passw" was flushed and "ord123" followed, unmasked.
C27_Witness ==
  /\ pc["listener"] = "idle"
  /\ kl_running
  /\ typed = Len(Password123)
  /\ delivered # <<>>
  /\ delivered[1] = <<"p", "a", "s", "s", "w">>
  /\ Concat(delivered) \o buffer = Password123
  /\ ~sensitive_mode

\* The press handler evaluates its flush condition, the token appended.
Decides == pc["listener"] = "p_cond" /\ pc'["listener"] # "p_cond"

\* C28 (SpecBracket): a press handled while running goes on to a flush exactly
\* when, its token appended, more than 1.0 s have passed since lastFlushTime,
\* or the token as appended is the bracketed token of a special key, or
\* pendingText is longer than 20 characters.
C28_FlushExactlyWhen ==
  [][Decides =>
       ((pc'["listener"] = "f_test") <=>
          (\/ now - last_timestamp > FlushAfter
           \/ (event.key \in SpecialKeys /\ key_str = KeyToken(event.key))
           \/ Len(buffer) > MaxBufferLen))]_vars

\* A key press reaches the listener.
PressArrives == typed' # typed \/ specials' # specials

\* C30 (SpecLine): a key press that arrives while the logger is not running
\* returns at once: its handler takes no further step, and pendingText,
\* sensitive mode, lastFlushTime and the KeystrokeBuffer are unchanged.
C30_IdleWhenNotRunning ==
  [][(PressArrives /\ ~kl_running) =>
       (/\ pc'["listener"] = "idle"
        /\ UNCHANGED <<buffer, sensitive_mode, last_timestamp, keystrokes>>)]_vars

\* A key was pressed between `self.running = False` and the stop of the
\* listener, and its token is not in pendingText.
C30_Witness ==
  /\ pc["main"] = "kl_detach"
  /\ ~kl_running
  /\ pc["listener"] = "idle"
  /\ event.kind = "press"
  /\ buffer # <<>>
  /\ Len(appended) < typed

\* Thread t is inside the body of the screen-sampling loop.
InLoop(t) == pc[t] \in {"s_capture", "s_evict", "s_sleep", "s_except"}

\* C29 (SpecRestart): whatever the order of the start() and stop() calls, the
\* thread of the first start() and the thread of a later start() are never
\* both inside the screen-sampling loop.
C29_OneSamplingLoop ==
  ~(InLoop("sampler") /\ InLoop("sampler2"))

====
